---- MODULE Spec2Model ----
(***************************************************************************)
(* Token lifecycle and paginated fetch of the Bling dashboard.             *)
(*                                                                         *)
(* The repository holds two token refreshers:                              *)
(*   - BlingAuth (src/auth_handler.py, repeated in app_production.py):     *)
(*     the credential is the file tokens.json;                             *)
(*   - services/bling_service.py of bling-saas: the credential is the      *)
(*     tenant's row of the clients table.                                  *)
(* The variable app says which of the two programs is running.  Streamlit  *)
(* runs every browser session's script in a thread of its own, so two      *)
(* sessions work on the same credential without any lock.                  *)
(*                                                                         *)
(* Tokens are numbers: 0 is "" / None (absent), n > 0 is the n-th token    *)
(* the vendor issued.  Time is in seconds.                                 *)
(***************************************************************************)
EXTENDS Integers, Sequences, FiniteSets, TLC

\* ------------------------------------------------------------------ bounds
MaxTicks == 3
MaxIssued == 3
MaxPages == 2
MaxCycles == 2
MaxRecords == 2
MaxSales == 3
MaxOrders == 3
MaxMinutes == 25
MaxRows == 2
MaxLogins == 2
MaxRenders == 2
MaxChanges == 2

\* ------------------------------------------------------- program constants
SafetyMargin == 60
FileDefaultExpiresIn == 0
SaasDefaultExpiresIn == 3600
MarginMinutes == 10
MaxAttempts == 5

\* the amounts of time (seconds) by which the clock is seen to advance
TickSteps == {60}

Sessions == {1, 2}

\* None of Python, for a field that holds a time
None == -1
\* a key the JSON body does not hold
Absent == -1

\* expires_in values the vendor reports (seconds)
ExpiresInValues == {30, 120, 3600}

VARIABLES
    app,            \* "file": BlingAuth over tokens.json; "saas": bling_service over the clients table
    now,            \* int(time.time())
    tokens_json,    \* the content of tokens.json
    client,         \* the tenant's row: access_token, refresh_token, token_expires_at
    issued,         \* vendor: number of token grants so far
    latest_refresh, \* vendor: the refresh token it issued last
    pc,             \* per session: position in the running operation
    op,             \* per session: the operation that is running
    tokens,         \* per session: the credential as the operation read it
    body,           \* per session: JSON body of the token endpoint's answer
    refreshed,      \* per session: the credential computed from the answer
    ret,            \* per session: outcome of the operation (exception, value)
    posts,          \* per session: POSTs to the token endpoint made by the running operation
    wrote,          \* per session: the running operation persisted the credential
    issued_at,      \* per session: clock value when the answer was processed
    raced,          \* some operation started while another was between its read and its write
    fetch,          \* the running get_all_data call of session 1 (see below)
    vendor_pages,   \* vendor: the JSON body it serves for each page of the endpoint
    env,            \* the deployment: which of client id, client secret and tokens.json exist
    ui,             \* the dashboard's script run and what it keeps between runs (see below)
    kpi,            \* a computation of the data processing: its input and its result (see below)
    portal          \* bling-saas: the tenant's account, the browser session and its script run (see below)

vars == <<app, now, tokens_json, client, issued, latest_refresh, pc, op, tokens,
          body, refreshed, ret, posts, wrote, issued_at, raced, fetch, vendor_pages,
          env, ui, kpi, portal>>

\* --------------------------------------------------------------- data types
TokenData(a, r, e, x) ==
    [access_token |-> a, refresh_token |-> r, expires_in |-> e, expiry_timestamp |-> x]

ClientRow(a, r, x) ==
    [access_token |-> a, refresh_token |-> r, token_expires_at |-> x]

NoTokens == TokenData(0, 0, 0, 0)

NoBody == [access_token |-> 0, refresh_token |-> 0, expires_in |-> Absent]

NoRet == [exc |-> "", value |-> 0]

Raise(e) == [exc |-> e, value |-> 0]

Return(v) == [exc |-> "", value |-> v]

\* the credential the running program persists, in one shape
Stored ==
    IF app = "file"
    THEN [access_token |-> tokens_json.access_token,
          refresh_token |-> tokens_json.refresh_token,
          expires_at |-> tokens_json.expiry_timestamp]
    ELSE [access_token |-> client.access_token,
          refresh_token |-> client.refresh_token,
          expires_at |-> client.token_expires_at]

Blank ==
    IF app = "file" THEN NoTokens ELSE ClientRow(0, 0, None)

\* another session is between reading the credential and persisting its own
InFlight(s) ==
    \E t \in Sessions \ {s} : pc[t] \in {"refreshing", "writing"}

\* ------------------------------------------------------------------ vendor
\* The bodies the token endpoint may answer with when it makes grant number n.
\* A body that carries no access_token carries no refresh_token either.
Bodies(n) ==
    {b \in [access_token : {0, n}, refresh_token : {0, n},
             expires_in : ExpiresInValues \cup {Absent}] :
        b.access_token = 0 => b.refresh_token = 0}

\* dict.get(key, default)
Get(value, default) ==
    IF value = Absent THEN default ELSE value

\* ------------------------------------------------ BlingAuth (tokens.json)
\* variant: only the access token is tested
MissingTokensAccessOnly(t) ==
    t.access_token = 0

\* get_valid_token: not tokens.access_token or not tokens.refresh_token
MissingTokens(t) ==
    t.access_token = 0 \/ t.refresh_token = 0

\* variant: the boundary is excluded
TokenExpiredStrict(t, n) ==
    t.expiry_timestamp < n

\* the test of get_valid_token: tokens.expiry_timestamp <= now
TokenExpired(t, n) ==
    t.expiry_timestamp <= n

\* variant: the safety margin is not subtracted
RefreshedTokenDataNoMargin(b, refresh_token, n) ==
    LET expires_in == Get(b.expires_in, FileDefaultExpiresIn)
    IN  TokenData(b.access_token,
                  IF b.refresh_token = 0 THEN refresh_token ELSE b.refresh_token,
                  expires_in,
                  n + expires_in)

\* variant: the refresh token of the answer is dropped
RefreshedTokenDataKeepRefresh(b, refresh_token, n) ==
    LET expires_in == Get(b.expires_in, FileDefaultExpiresIn)
    IN  TokenData(b.access_token, refresh_token, expires_in,
                  n + expires_in - SafetyMargin)

\* the TokenData _refresh_token builds from the answer
RefreshedTokenData(b, refresh_token, n) ==
    LET expires_in == Get(b.expires_in, FileDefaultExpiresIn)
    IN  TokenData(b.access_token,
                  IF b.refresh_token = 0 THEN refresh_token ELSE b.refresh_token,
                  expires_in,
                  n + expires_in - SafetyMargin)

\* get_valid_token up to its decision: read tokens.json (_read_tokens raises
\* FileNotFoundError when the file does not exist), reject a credential
\* without tokens, compare the expiry with the clock
ReadTokens(s) ==
    /\ app = "file"
    /\ pc[s] = "gvt_read"
    /\ tokens' = [tokens EXCEPT ![s] = IF env.token_file THEN tokens_json ELSE @]
    /\ IF ~env.token_file
       THEN /\ pc' = [pc EXCEPT ![s] = "done"]
            /\ ret' = [ret EXCEPT ![s] = Raise("FileNotFoundError")]
            /\ UNCHANGED raced
       ELSE IF MissingTokens(tokens_json)
       THEN /\ pc' = [pc EXCEPT ![s] = "done"]
            /\ ret' = [ret EXCEPT ![s] = Raise("RuntimeError")]
            /\ UNCHANGED raced
       ELSE IF TokenExpired(tokens_json, now)
       THEN /\ pc' = [pc EXCEPT ![s] = "refreshing"]
            /\ raced' = (raced \/ InFlight(s))
            /\ UNCHANGED ret
       ELSE /\ pc' = [pc EXCEPT ![s] = "done"]
            /\ ret' = [ret EXCEPT ![s] = Return(tokens_json.access_token)]
            /\ UNCHANGED raced
    /\ UNCHANGED <<app, now, tokens_json, client, issued, latest_refresh, op,
                   body, refreshed, posts, wrote, issued_at, fetch, vendor_pages, env, ui, kpi, portal>>

\* _refresh_token: the POST to the token endpoint and what is made of its answer
RefreshToken(s) ==
    /\ app = "file"
    /\ pc[s] = "refreshing"
    /\ posts' = [posts EXCEPT ![s] = @ + 1]
    /\ \/ \* the vendor rejects: raise_for_status raises requests.HTTPError
          /\ pc' = [pc EXCEPT ![s] = "done"]
          /\ ret' = [ret EXCEPT ![s] = Raise("HTTPError")]
          /\ UNCHANGED <<issued, latest_refresh, body, refreshed, issued_at>>
       \/ \* the vendor answers 200
          /\ issued < MaxIssued
          /\ \E b \in Bodies(issued + 1) :
                /\ body' = [body EXCEPT ![s] = b]
                /\ refreshed' = [refreshed EXCEPT ![s] =
                        RefreshedTokenData(b, tokens[s].refresh_token, now)]
                /\ issued' = IF b.access_token = 0 THEN issued ELSE issued + 1
                /\ latest_refresh' =
                        IF b.refresh_token = 0 THEN latest_refresh ELSE b.refresh_token
          /\ issued_at' = [issued_at EXCEPT ![s] = now]
          /\ pc' = [pc EXCEPT ![s] = "writing"]
          /\ UNCHANGED ret
    /\ UNCHANGED <<app, now, tokens_json, client, op, tokens, wrote, raced, fetch, vendor_pages, env, ui, kpi, portal>>

\* variant: the refreshed token is returned without being written
WriteTokensNotPersisted(s) ==
    /\ app = "file"
    /\ pc[s] = "writing"
    /\ pc' = [pc EXCEPT ![s] = "done"]
    /\ ret' = [ret EXCEPT ![s] = Return(refreshed[s].access_token)]
    /\ UNCHANGED <<app, now, tokens_json, client, issued, latest_refresh, op, tokens,
                   body, refreshed, posts, wrote, issued_at, raced, fetch, vendor_pages, env, ui, kpi, portal>>

\* _write_tokens(refreshed); return refreshed.access_token
WriteTokens(s) ==
    /\ app = "file"
    /\ pc[s] = "writing"
    /\ tokens_json' = refreshed[s]
    /\ wrote' = [wrote EXCEPT ![s] = TRUE]
    /\ pc' = [pc EXCEPT ![s] = "done"]
    /\ ret' = [ret EXCEPT ![s] = Return(refreshed[s].access_token)]
    /\ UNCHANGED <<app, now, client, issued, latest_refresh, op, tokens, body,
                   refreshed, posts, issued_at, raced, fetch, vendor_pages, env, ui, kpi, portal>>

\* ------------------------------------- bling_service (the clients table)
\* variant: the margin is taken in hours
is_token_expiring_hours(expires_at, minutes, n) ==
    IF expires_at = None THEN TRUE ELSE expires_at <= n + minutes * 3600

\* is_token_expiring(expires_at, minutes) at clock value n
is_token_expiring(expires_at, minutes, n) ==
    IF expires_at = None THEN TRUE ELSE expires_at <= n + minutes * 60

\* _token_expires_at_from_seconds(expires_in) at clock value n
token_expires_at_from_seconds(expires_in, n) ==
    n + expires_in

\* what refresh_token returns for the answer b: access_token, new_refresh, expires_at
RefreshResult(b, refresh_token_value, n) ==
    ClientRow(b.access_token,
              IF b.refresh_token = 0 THEN refresh_token_value ELSE b.refresh_token,
              token_expires_at_from_seconds(Get(b.expires_in, SaasDefaultExpiresIn), n))

\* what exchange_code_for_token returns for the answer b
ExchangeResult(b, n) ==
    ClientRow(b.access_token, b.refresh_token,
              token_expires_at_from_seconds(Get(b.expires_in, SaasDefaultExpiresIn), n))

\* ensure_valid_token / force_refresh_token up to the POST: the row the script
\* run loaded, the expiry test (ensure_valid_token only), and refresh_token's
\* test of the refresh token
StartRefresh(s) ==
    /\ app = "saas"
    /\ pc[s] = "start"
    /\ op[s] \in {"ensure_valid_token", "force_refresh_token"}
    /\ tokens' = [tokens EXCEPT ![s] = client]
    /\ IF op[s] = "ensure_valid_token"
          /\ ~is_token_expiring(client.token_expires_at, MarginMinutes, now)
       THEN /\ pc' = [pc EXCEPT ![s] = "done"]
            /\ ret' = [ret EXCEPT ![s] = Return(0)]
            /\ UNCHANGED raced
       ELSE IF client.refresh_token = 0
       THEN /\ pc' = [pc EXCEPT ![s] = "done"]
            /\ ret' = [ret EXCEPT ![s] = Raise("BlingAuthError")]
            /\ UNCHANGED raced
       ELSE /\ pc' = [pc EXCEPT ![s] = "refreshing"]
            /\ raced' = (raced \/ InFlight(s))
            /\ UNCHANGED ret
    /\ UNCHANGED <<app, now, tokens_json, client, issued, latest_refresh, op,
                   body, refreshed, posts, wrote, issued_at, fetch, vendor_pages, env, ui, kpi, portal>>

\* refresh_token from its POST on
PostRefresh(s) ==
    /\ app = "saas"
    /\ pc[s] = "refreshing"
    /\ posts' = [posts EXCEPT ![s] = @ + 1]
    /\ \/ \* resp.status_code >= 400
          /\ pc' = [pc EXCEPT ![s] = "done"]
          /\ ret' = [ret EXCEPT ![s] = Raise("BlingAuthError")]
          /\ UNCHANGED <<issued, latest_refresh, body, refreshed, issued_at>>
       \/ \* no answer: requests.post raises (ConnectionError, Timeout)
          /\ pc' = [pc EXCEPT ![s] = "done"]
          /\ ret' = [ret EXCEPT ![s] = Raise("ConnectionError")]
          /\ UNCHANGED <<issued, latest_refresh, body, refreshed, issued_at>>
       \/ /\ issued < MaxIssued
          /\ \E b \in Bodies(issued + 1) :
                /\ body' = [body EXCEPT ![s] = b]
                /\ issued' = IF b.access_token = 0 THEN issued ELSE issued + 1
                /\ latest_refresh' =
                        IF b.refresh_token = 0 THEN latest_refresh ELSE b.refresh_token
                /\ IF b.access_token = 0
                   THEN /\ pc' = [pc EXCEPT ![s] = "done"]
                        /\ ret' = [ret EXCEPT ![s] = Raise("BlingAuthError")]
                        /\ UNCHANGED refreshed
                   ELSE /\ pc' = [pc EXCEPT ![s] = "writing"]
                        /\ refreshed' = [refreshed EXCEPT ![s] =
                                RefreshResult(b, tokens[s].refresh_token, now)]
                        /\ UNCHANGED ret
          /\ issued_at' = [issued_at EXCEPT ![s] = now]
    /\ UNCHANGED <<app, now, tokens_json, client, op, tokens, wrote, raced, fetch, vendor_pages, env, ui, kpi, portal>>

\* exchange_code_for_token, called by the admin view with the code typed in
\* (code = 0: the field was left empty)
ExchangeCode(s) ==
    /\ app = "saas"
    /\ pc[s] = "start"
    /\ op[s] = "exchange_code_for_token"
    /\ tokens' = [tokens EXCEPT ![s] = client]
    /\ \E code \in {0, 1} :
        IF code = 0
        THEN /\ pc' = [pc EXCEPT ![s] = "done"]
             /\ ret' = [ret EXCEPT ![s] = Raise("BlingAuthError")]
             /\ UNCHANGED <<issued, latest_refresh, body, refreshed, posts,
                            issued_at, raced>>
        ELSE /\ posts' = [posts EXCEPT ![s] = @ + 1]
             /\ \/ /\ pc' = [pc EXCEPT ![s] = "done"]
                   /\ ret' = [ret EXCEPT ![s] = Raise("BlingAuthError")]
                   /\ UNCHANGED <<issued, latest_refresh, body, refreshed,
                                  issued_at, raced>>
                \/ /\ issued < MaxIssued
                   /\ \E b \in Bodies(issued + 1) :
                        /\ body' = [body EXCEPT ![s] = b]
                        /\ issued' = IF b.access_token = 0 THEN issued ELSE issued + 1
                        /\ latest_refresh' =
                             IF b.refresh_token = 0 THEN latest_refresh ELSE b.refresh_token
                        /\ IF b.access_token = 0 \/ b.refresh_token = 0
                           THEN /\ pc' = [pc EXCEPT ![s] = "done"]
                                /\ ret' = [ret EXCEPT ![s] = Raise("BlingAuthError")]
                                /\ UNCHANGED <<refreshed, raced>>
                           ELSE /\ pc' = [pc EXCEPT ![s] = "writing"]
                                /\ refreshed' = [refreshed EXCEPT ![s] = ExchangeResult(b, now)]
                                /\ raced' = (raced \/ InFlight(s))
                                /\ UNCHANGED ret
                   /\ issued_at' = [issued_at EXCEPT ![s] = now]
    /\ UNCHANGED <<app, now, tokens_json, client, op, wrote, fetch, vendor_pages, env, ui, kpi, portal>>

\* the three attributes are assigned and the session is committed
Commit(s) ==
    /\ app = "saas"
    /\ pc[s] = "writing"
    /\ client' = refreshed[s]
    /\ wrote' = [wrote EXCEPT ![s] = TRUE]
    /\ pc' = [pc EXCEPT ![s] = "done"]
    /\ ret' = [ret EXCEPT ![s] = Return(0)]
    /\ UNCHANGED <<app, now, tokens_json, issued, latest_refresh, op, tokens, body,
                   refreshed, posts, issued_at, raced, fetch, vendor_pages, env, ui, kpi, portal>>

\* ------------------------------------------- callers and the environment
\* a deployment with BLING_CLIENT_ID, BLING_CLIENT_SECRET and tokens.json
Configured ==
    [client_id |-> TRUE, client_secret |-> TRUE, token_file |-> TRUE]

\* no endpoint is being served
NoVendor ==
    [listed |-> <<>>, beyond |-> [is_dict |-> TRUE, data |-> 0]]

\* pd.DataFrame(): no rows, no columns; also an absent cache entry
EmptyFrame ==
    [cycle |-> 0, raw |-> <<>>]

\* no get_all_data call has handed anything to the script run
NoOutcome ==
    [exc |-> "", value |-> <<>>, page |-> 0]

\* the dashboard before its first script run
NoUi ==
    [program |-> "app", pc |-> "idle", endpoint |-> 0, raw |-> <<>>,
     kept |-> EmptyFrame, shown |-> EmptyFrame, message |-> "",
     cycles |-> 0, before |-> EmptyFrame, failed |-> FALSE, last |-> NoOutcome]

\* no computation is under way
NoKpi ==
    [fn |-> "", done |-> FALSE]

\* no login attempt so far
NoAttempt ==
    [username |-> "", verified |-> FALSE, active |-> FALSE, outcome |-> "",
     count_before |-> 0, last_before |-> None]

\* the tenant's account is active and has never logged in; the browser session
\* is not authenticated and no script run is under way
NoPortal ==
    [tenant |-> [exists |-> TRUE, is_active |-> TRUE, login_count |-> 0,
                 last_login |-> None],
     auth |-> "", auth_error |-> FALSE, token_error |-> FALSE,
     pc |-> "idle", attempts |-> 0, attempt |-> NoAttempt,
     renders |-> 0, page |-> "", checked |-> FALSE, changes |-> 0]

\* the state of a session outside a call
NoFetch ==
    [pc |-> "idle", page |-> 0, all_items |-> <<>>, attempt |-> 0, token |-> 0,
     exc |-> "", last_get |-> 0, clean |-> TRUE,
     token_posts |-> 0, rejected |-> FALSE,
     status |-> 0, failure |-> "", wait |-> 0, delay |-> {}]

\* a script run calls get_valid_token (BlingClient._get), ensure_valid_token
\* (login_user, render_client), force_refresh_token or exchange_code_for_token
\* (render_admin)
Call(s, o) ==
    /\ pc[s] = "idle"
    /\ \/ app = "file" /\ o = "get_valid_token"
       \/ app = "saas" /\ o \in {"ensure_valid_token", "force_refresh_token",
                                 "exchange_code_for_token"}
    /\ op' = [op EXCEPT ![s] = o]
    /\ pc' = [pc EXCEPT ![s] = IF o = "get_valid_token" THEN "gvt_read" ELSE "start"]
    /\ UNCHANGED <<app, now, tokens_json, client, issued, latest_refresh, tokens,
                   body, refreshed, ret, posts, wrote, issued_at, raced, fetch, vendor_pages, env, ui, kpi, portal>>

CallGetValidToken(s) ==
    Call(s, "get_valid_token")

CallEnsureValidToken(s) ==
    Call(s, "ensure_valid_token")

CallForceRefreshToken(s) ==
    Call(s, "force_refresh_token")

CallExchangeCode(s) ==
    Call(s, "exchange_code_for_token")

\* the call's locals are gone once it has returned or raised
Returns(s) ==
    /\ pc[s] = "done"
    /\ pc' = [pc EXCEPT ![s] = "idle"]
    /\ op' = [op EXCEPT ![s] = ""]
    /\ tokens' = [tokens EXCEPT ![s] = Blank]
    /\ refreshed' = [refreshed EXCEPT ![s] = Blank]
    /\ body' = [body EXCEPT ![s] = NoBody]
    /\ ret' = [ret EXCEPT ![s] = NoRet]
    /\ posts' = [posts EXCEPT ![s] = 0]
    /\ wrote' = [wrote EXCEPT ![s] = FALSE]
    /\ issued_at' = [issued_at EXCEPT ![s] = 0]
    /\ UNCHANGED <<app, now, tokens_json, client, issued, latest_refresh, raced, env, kpi>>

\* the operation's outcome reaches its caller
ReturnToCaller(s) ==
    /\ Returns(s)
    /\ UNCHANGED <<fetch, vendor_pages, ui, kpi, portal>>

\* time passes
TickClock ==
    /\ \E d \in TickSteps :
        /\ now + d <= MaxTicks * 60
        /\ now' = now + d
    /\ UNCHANGED <<app, tokens_json, client, issued, latest_refresh, pc, op, tokens,
                   body, refreshed, ret, posts, wrote, issued_at, raced, fetch, vendor_pages, env, ui, kpi, portal>>

\* expiry values a credential may hold when the program starts
InitExpiry == {0, 60, 660}

InitLocals ==
    /\ pc = [s \in Sessions |-> "idle"]
    /\ op = [s \in Sessions |-> ""]
    /\ tokens = [s \in Sessions |-> Blank]
    /\ refreshed = [s \in Sessions |-> Blank]
    /\ body = [s \in Sessions |-> NoBody]
    /\ ret = [s \in Sessions |-> NoRet]
    /\ posts = [s \in Sessions |-> 0]
    /\ wrote = [s \in Sessions |-> FALSE]
    /\ issued_at = [s \in Sessions |-> 0]
    /\ raced = FALSE

\* tokens.json as the operator provided it: any of its keys may be missing
\* (_read_tokens reads every key with a default)
InitFile ==
    /\ app = "file"
    /\ tokens_json \in {TokenData(a, r, 0, x) : a \in {0, 1}, r \in {0, 1}, x \in InitExpiry}
    /\ client = ClientRow(0, 0, None)

\* the tenant's row as render_admin created it: without tokens, or with the
\* tokens of an authorization-code exchange
InitSaas ==
    /\ app = "saas"
    /\ tokens_json = NoTokens
    /\ client \in {ClientRow(0, 0, None)} \cup {ClientRow(1, 1, x) : x \in InitExpiry}

Init ==
    /\ now = 0
    /\ InitFile \/ InitSaas
    /\ issued = 1
    /\ latest_refresh = Stored.refresh_token
    /\ InitLocals
    /\ fetch = NoFetch
    /\ vendor_pages = NoVendor
    /\ env = Configured
    /\ ui = NoUi
    /\ kpi = NoKpi
    /\ portal = NoPortal

\* one step of a script run
SessionStep(s) ==
    \/ CallGetValidToken(s)
    \/ ReadTokens(s)
    \/ RefreshToken(s)
    \/ WriteTokens(s)
    \/ CallEnsureValidToken(s)
    \/ CallForceRefreshToken(s)
    \/ CallExchangeCode(s)
    \/ StartRefresh(s)
    \/ PostRefresh(s)
    \/ ExchangeCode(s)
    \/ Commit(s)
    \/ ReturnToCaller(s)

\* One session at a time, as time passes: the token operations run one after
\* the other.
Next ==
    \/ SessionStep(1)
    \/ TickClock

Spec == Init /\ [][Next]_vars

\* one step of a client's script run: the calls that refresh when they find
\* the token expired
ClientStep(s) ==
    \/ CallGetValidToken(s)
    \/ ReadTokens(s)
    \/ RefreshToken(s)
    \/ WriteTokens(s)
    \/ CallEnsureValidToken(s)
    \/ StartRefresh(s)
    \/ PostRefresh(s)
    \/ Commit(s)
    \/ ReturnToCaller(s)

\* Two script runs of the same tenant overlap; the clock does not advance
\* while they do.
NextRace ==
    \E s \in Sessions : ClientStep(s)

SpecRace == Init /\ [][NextRace]_vars

\* ===================================================================
\* Properties of the token refresher
\* ===================================================================
RefreshOps == {"get_valid_token", "ensure_valid_token", "force_refresh_token"}

\* the step in which get_valid_token / ensure_valid_token decides whether to refresh
Decides(s) ==
    /\ pc[s] \in {"gvt_read", "start"}
    /\ op[s] \in {"get_valid_token", "ensure_valid_token"}
    /\ pc'[s] # pc[s]

\* the step in which session s persists the credential it obtained
Persists(s) ==
    /\ pc[s] = "writing"
    /\ pc'[s] = "done"

\* session s is about to POST to the token endpoint
AttemptsRefresh(s) ==
    pc'[s] = "refreshing"

HasTokens ==
    Stored.access_token # 0 /\ Stored.refresh_token # 0

\* the token the finished call leaves with its caller: get_valid_token returns
\* it, ensure_valid_token leaves it in client.access_token
HandedToken(s) ==
    IF app = "file" THEN ret[s].value ELSE client.access_token

\* C1 as stated: for every stored credential and every clock value, a stored
\* expires_at <= now makes the refresher attempt a refresh.
C1_RefreshWheneverExpired ==
    [][\A s \in Sessions :
        (Decides(s) /\ Stored.expires_at # None /\ Stored.expires_at <= now)
            => AttemptsRefresh(s)]_vars

\* C1 (amended): for every stored credential that holds an access token and a
\* refresh token, and every clock value, a stored expires_at <= now makes the
\* refresher attempt a refresh; with expires_at = now it does not return the
\* cached access token.
C1_ExpiryBoundaryInclusive ==
    [][\A s \in Sessions :
        (Decides(s) /\ HasTokens /\ Stored.expires_at # None /\ Stored.expires_at <= now)
            => AttemptsRefresh(s)]_vars

\* a refresh is about to be made for a token whose expiry is exactly now
C1_Witness ==
    \E s \in Sessions :
        /\ pc[s] = "refreshing"
        /\ posts[s] = 0
        /\ HasTokens
        /\ Stored.expires_at = now
        /\ tokens[s].refresh_token = Stored.refresh_token

C3_StaleOnlyByRace ==
    ((\A s \in Sessions : pc[s] # "writing") /\ Stored.refresh_token # latest_refresh)
        => raced

\* after a race, alone, a session presents the persisted, stale refresh token
C3_Witness ==
    \E s \in Sessions :
        /\ raced
        /\ \A t \in Sessions \ {s} : pc[t] = "idle"
        /\ pc[s] = "refreshing"
        /\ Stored.refresh_token # 0
        /\ Stored.refresh_token # latest_refresh
        /\ tokens[s].refresh_token = Stored.refresh_token

\* the refresh that session s has finished failed: the vendor rejected it or
\* its answer held no access token
FailedRefresh(s) ==
    /\ pc[s] = "done"
    /\ op[s] \in RefreshOps
    /\ posts[s] >= 1
    /\ (ret[s].exc # "" \/ body[s].access_token = 0)

\* C5: a failed refresh attempt leaves the persisted credential as it was.
C5_FailedRefreshKeepsCredential ==
    \A s \in Sessions : FailedRefresh(s) => ~wrote[s]

\* the persisted token counts as expired (or expiring) at clock value n
NeedsRefresh(n) ==
    IF app = "file"
    THEN tokens_json.expiry_timestamp <= n
    ELSE client.token_expires_at = None
            \/ client.token_expires_at <= n + MarginMinutes * 60

\* C6: right after a successful refresh (same clock value) the token is not
\* expired or expiring, whatever expires_in the vendor returned or omitted.
C6_ValidAfterRefresh ==
    \A s \in Sessions :
        (/\ pc[s] = "done"
         /\ op[s] \in RefreshOps
         /\ wrote[s]
         /\ body[s].access_token # 0
         /\ now = issued_at[s])
            => ~NeedsRefresh(now)

\* C7 as stated: when the stored token (an access token is stored) is not
\* expired, nor within the margin, the refresher returns the cached access
\* token, sends nothing to the token endpoint and leaves the credential
\* unchanged.
C7_NoRefreshWhileValid ==
    [][\A s \in Sessions :
        (Decides(s) /\ Stored.access_token # 0 /\ ~NeedsRefresh(now))
            => /\ pc'[s] = "done"
               /\ ret'[s] = Return(IF app = "file" THEN Stored.access_token ELSE 0)
               /\ posts'[s] = 0
               /\ ~wrote'[s]
               /\ Stored' = Stored]_vars

\* C7 (amended): the same, for a credential that holds an access token and a
\* refresh token.
C7_NoRefreshWhileValidWithTokens ==
    [][\A s \in Sessions :
        (Decides(s) /\ HasTokens /\ ~NeedsRefresh(now))
            => /\ pc'[s] = "done"
               /\ ret'[s] = Return(IF app = "file" THEN Stored.access_token ELSE 0)
               /\ posts'[s] = 0
               /\ ~wrote'[s]
               /\ Stored' = Stored]_vars

\* get_valid_token has returned the cached token of an unexpired credential
C7_Witness ==
    \E s \in Sessions :
        /\ app = "file"
        /\ pc[s] = "done"
        /\ HasTokens
        /\ ~NeedsRefresh(now)
        /\ posts[s] = 0
        /\ ~wrote[s]
        /\ ret[s] = Return(tokens_json.access_token)

\* C8: a successful refresh persists the access token of the answer and the
\* refresh token of the answer, or the prior refresh token when the answer
\* holds none; the access token handed to the caller is the persisted one.
C8_RefreshPersistsAnswer ==
    [][\A s \in Sessions :
        (/\ pc[s] = "writing"
         /\ pc'[s] # "writing"
         /\ op[s] \in RefreshOps
         /\ body[s].access_token # 0)
            => /\ Stored'.access_token = body[s].access_token
               /\ Stored'.refresh_token =
                    IF body[s].refresh_token = 0
                    THEN Stored.refresh_token
                    ELSE body[s].refresh_token
               /\ app = "file" => ret'[s] = Return(Stored'.access_token)]_vars

\* a refresh whose answer held no refresh token was persisted with the prior one
C8_Witness ==
    \E s \in Sessions :
        /\ pc[s] = "done"
        /\ op[s] \in RefreshOps
        /\ wrote[s]
        /\ body[s].access_token # 0
        /\ body[s].refresh_token = 0
        /\ Stored.access_token = body[s].access_token
        /\ Stored.refresh_token = tokens[s].refresh_token
        /\ HandedToken(s) = Stored.access_token

\* C9: with no stored refresh token the refresher fails with an authentication
\* error (RuntimeError of BlingAuth, BlingAuthError of bling_service), returns
\* no token and sends nothing to the vendor.
C9_NoRefreshTokenFails ==
    [][\A s \in Sessions :
        (Decides(s) /\ Stored.refresh_token = 0)
            => /\ pc'[s] = "done"
               /\ ret'[s].exc \in {"RuntimeError", "BlingAuthError"}
               /\ ret'[s].value = 0
               /\ posts'[s] = 0]_vars

\* get_valid_token has raised for a credential with an access token only
C9_Witness ==
    \E s \in Sessions :
        /\ pc[s] = "done"
        /\ op[s] = "get_valid_token"
        /\ Stored.access_token # 0
        /\ Stored.refresh_token = 0
        /\ ret[s] = Raise("RuntimeError")
        /\ posts[s] = 0

\* ===================================================================
\* BlingClient: _get and get_all_data (bling_client.py, app_production.py)
\* ===================================================================
\* The session that fetches is session 1; fetch holds the locals of its
\* get_all_data call (page, all_items), of the retry loop around _get
\* (attempt) and what the call has done so far:
\*   last_get         the page of the last GET the call issued
\*   clean            no request of the call has failed
\*   token_posts      POSTs to the token endpoint during the current page request
\*   rejected         one of them was answered with an HTTP error
\*   status           the error status answered to the GET of the attempt that
\*                    has just failed (0: none)
\*   failure          the exception of the attempt that has just failed
\*   wait             the seconds the retry loop waits before the next attempt
\*   delay            the waits of the call since its last GET: "sleep"
\*                    (time.sleep(0.4)) and "backoff" (the wait of the retry loop)

\* JSON bodies of a page: not an object, an object without "data", or
\* an object whose "data" is a list of 0 or 2 records
Payloads ==
    {[is_dict |-> FALSE, data |-> Absent]}
        \cup {[is_dict |-> TRUE, data |-> d] : d \in {Absent, 0, 2}}

\* record i of page p
Record(p, i) ==
    <<p, i>>

\* a body whose "data" is the empty list
EmptyPage ==
    [is_dict |-> TRUE, data |-> 0]

\* a vendor whose data set ends after the pages listed
FiniteVendor(listed) ==
    [listed |-> listed, beyond |-> EmptyPage]

\* the body the vendor serves for page p: the pages it lists, and one and the
\* same body for every page number past them
Serve(p) ==
    IF p \in DOMAIN vendor_pages.listed THEN vendor_pages.listed[p] ELSE vendor_pages.beyond

\* items = data.get("data", []) if isinstance(data, dict) else []
ItemsOf(data, p) ==
    IF data.is_dict /\ data.data # Absent
    THEN [i \in 1..data.data |-> Record(p, i)]
    ELSE <<>>

\* variant: the page is put in front
ExtendInFront(all_items, items) ==
    items \o all_items

\* all_items.extend(items)
Extend(all_items, items) ==
    all_items \o items

\* The pages past the listed ones are all alike: a call that has gone past the
\* first of them (g, reached from f) is kept at the first of them, with the
\* page number and the records it held there.
Folded(g, f) ==
    IF g.page > Len(vendor_pages.listed) + 1
    THEN [g EXCEPT !.page = f.page, !.all_items = f.all_items]
    ELSE g

\* variant: every exception is retried
RetryAnyException(exc) ==
    TRUE

\* retry_if_exception_type(requests.HTTPError)
Retryable(exc) ==
    exc = "HTTPError"

\* wait_exponential(multiplier=1, min=1, max=10) after the attempt numbered n:
\* 2^(n-1) seconds, at least 1 and at most 10
WaitExponential(n) ==
    IF 2^(n - 1) > 10 THEN 10 ELSE 2^(n - 1)

\* variant: one more attempt is made before giving up
AfterFailureOneMore(f, exc) ==
    IF Retryable(exc) /\ f.attempt <= MaxAttempts
    THEN [f EXCEPT !.pc = "backoff", !.attempt = @ + 1, !.clean = FALSE,
                   !.failure = exc, !.wait = WaitExponential(f.attempt)]
    ELSE [f EXCEPT !.pc = "raised", !.exc = exc, !.clean = FALSE,
                   !.failure = exc]

\* tenacity: retry_if_exception_type(requests.HTTPError), stop_after_attempt(5),
\* reraise=True -- what a failed attempt leads to
AfterFailure(f, exc) ==
    IF Retryable(exc) /\ f.attempt < MaxAttempts
    THEN [f EXCEPT !.pc = "backoff", !.attempt = @ + 1, !.clean = FALSE,
                   !.failure = exc, !.wait = WaitExponential(f.attempt)]
    ELSE [f EXCEPT !.pc = "raised", !.exc = exc, !.clean = FALSE,
                   !.failure = exc]

\* get_all_data up to its loop: all_items = [], page = 1
StartFetch ==
    /\ app = "file"
    /\ fetch.pc = "idle"
    /\ fetch' = [NoFetch EXCEPT !.pc = "get", !.page = 1, !.attempt = 1]
    /\ UNCHANGED <<app, now, tokens_json, client, issued, latest_refresh, pc, op,
                   tokens, body, refreshed, ret, posts, wrote, issued_at, raced,
                   vendor_pages, env, ui, kpi, portal>>

\* _get: token = self.auth.get_valid_token()
GetCallsToken ==
    /\ fetch.pc = "get"
    /\ pc[1] = "idle"
    /\ fetch' = [fetch EXCEPT !.pc = "token"]
    /\ pc' = [pc EXCEPT ![1] = "gvt_read"]
    /\ op' = [op EXCEPT ![1] = "get_valid_token"]
    /\ UNCHANGED <<app, now, tokens_json, client, issued, latest_refresh, tokens,
                   body, refreshed, ret, posts, wrote, issued_at, raced, vendor_pages, env, ui, kpi, portal>>

\* get_valid_token returns the token to _get, or raises into the retry loop
TokenReturns ==
    /\ fetch.pc = "token"
    /\ Returns(1)
    /\ LET f == [fetch EXCEPT !.token_posts = @ + posts[1],
                              !.rejected = @ \/ (ret[1].exc = "HTTPError")]
       IN  fetch' = IF ret[1].exc = ""
                    THEN [f EXCEPT !.pc = "request", !.token = ret[1].value]
                    ELSE AfterFailure(f, ret[1].exc)
    /\ UNCHANGED <<vendor_pages, ui, kpi, portal>>

\* _get from requests.get on, and the body of get_all_data's loop
SendGet ==
    /\ fetch.pc = "request"
    /\ LET f == [fetch EXCEPT !.last_get = fetch.page, !.delay = {}]
       IN  \/ \* 200: the page's JSON
              LET items == ItemsOf(Serve(fetch.page), fetch.page)
              IN  fetch' = IF items = <<>>
                           THEN [f EXCEPT !.pc = "returned"]
                           ELSE Folded([f EXCEPT !.pc = "sleep",
                                                 !.all_items = Extend(@, items),
                                                 !.page = @ + 1],
                                       fetch)
           \/ \* an error status, 429 or another: raise_for_status
              \E status \in {429, 500} :
                fetch' = AfterFailure([f EXCEPT !.status = status], "HTTPError")
           \/ \* no answer: requests.ConnectionError, requests.Timeout
              \E e \in {"ConnectionError", "Timeout"} : fetch' = AfterFailure(f, e)
    /\ UNCHANGED <<app, now, tokens_json, client, issued, latest_refresh, pc, op,
                   tokens, body, refreshed, ret, posts, wrote, issued_at, raced,
                   vendor_pages, env, ui, kpi, portal>>

\* wait_exponential(multiplier=1, min=1, max=10), then the next attempt
Backoff ==
    /\ fetch.pc = "backoff"
    /\ fetch' = [fetch EXCEPT !.pc = "get", !.status = 0, !.failure = "",
                              !.wait = 0, !.delay = @ \cup {"backoff"}]
    /\ UNCHANGED <<app, now, tokens_json, client, issued, latest_refresh, pc, op,
                   tokens, body, refreshed, ret, posts, wrote, issued_at, raced,
                   vendor_pages, env, ui, kpi, portal>>

\* variant: the next page is asked for without a sleep
NextPageAtOnce(f) ==
    [f EXCEPT !.pc = "get", !.attempt = 1, !.token_posts = 0, !.rejected = FALSE]

\* page += 1 is done; time.sleep(0.4), and the loop calls _get again
NextPage(f) ==
    [f EXCEPT !.pc = "get", !.attempt = 1, !.token_posts = 0, !.rejected = FALSE,
              !.delay = @ \cup {"sleep"}]

\* time.sleep(0.4), then _get for the next page
Sleep ==
    /\ fetch.pc = "sleep"
    /\ fetch' = NextPage(fetch)
    /\ UNCHANGED <<app, now, tokens_json, client, issued, latest_refresh, pc, op,
                   tokens, body, refreshed, ret, posts, wrote, issued_at, raced,
                   vendor_pages, env, ui, kpi, portal>>

InitFetch ==
    /\ now = 0
    /\ InitFile
    /\ issued = 1
    /\ latest_refresh = Stored.refresh_token
    /\ InitLocals
    /\ fetch = NoFetch
    /\ vendor_pages \in {FiniteVendor(l) : l \in [1..MaxPages -> Payloads]}
    /\ env \in {Configured, [Configured EXCEPT !.token_file = FALSE]}
    /\ ui = NoUi
    /\ kpi = NoKpi
    /\ portal = NoPortal

\* One get_all_data call; it is short against the clock's step, and the clock
\* does not advance while it runs.
NextFetch ==
    \/ StartFetch
    \/ GetCallsToken
    \/ ReadTokens(1)
    \/ RefreshToken(1)
    \/ WriteTokens(1)
    \/ TokenReturns
    \/ SendGet
    \/ Backoff
    \/ Sleep

SpecFetch == InitFetch /\ [][NextFetch]_vars

\* ===================================================================
\* Properties of the paginated fetcher
\* ===================================================================
\* C4: a token POST answered with an HTTP error during a page request is not
\* repeated: exactly one POST to the token endpoint is made for that request.
C4_RejectedRefreshNotRetried ==
    fetch.rejected => fetch.token_posts = 1

RECURSIVE FirstEmptyFrom(_)
\* the first page from p on whose body holds no records (of a vendor whose
\* data set ends)
FirstEmptyFrom(p) ==
    IF ItemsOf(Serve(p), p) = <<>> \/ p > Len(vendor_pages.listed)
    THEN p
    ELSE FirstEmptyFrom(p + 1)

RECURSIVE PagesUpTo(_)
\* the records of pages 1..p, in page order
PagesUpTo(p) ==
    IF p = 0 THEN <<>> ELSE PagesUpTo(p - 1) \o ItemsOf(Serve(p), p)

\* the step in which the GET of a page is issued
IssuesGet ==
    fetch.pc = "request" /\ fetch'.pc # "request"

\* C10: on a run without request failures get_all_data requests pages 1, 2,
\* 3, ... in order, each once (every GET asks for the page after the one asked
\* before), requests nothing after the first page without records, and returns
\* the records of the pages before it, in page order and in the order within
\* each page.
C10_PaginationResult ==
    [][(IssuesGet /\ fetch'.clean)
        => /\ fetch.page = fetch.last_get + 1
           /\ fetch.page <= FirstEmptyFrom(1)
           /\ fetch'.pc = "returned"
                => /\ fetch.page = FirstEmptyFrom(1)
                   /\ fetch'.all_items = PagesUpTo(FirstEmptyFrom(1) - 1)]_vars

\* a clean run over two pages of records has returned them
C10_Witness ==
    /\ fetch.pc = "returned"
    /\ fetch.clean
    /\ fetch.last_get = 3
    /\ fetch.all_items = <<Record(1, 1), Record(1, 2), Record(2, 1), Record(2, 2)>>

\* an attempt of _get ends without a body: get_valid_token or the GET failed
AttemptFails ==
    /\ fetch.pc \in {"token", "request"}
    /\ fetch' # fetch
    /\ fetch'.pc \notin {"request", "sleep", "returned"}

\* C12: a page request is attempted at most 5 times; an attempt that fails is
\* followed by another one only before the fifth; when the fifth fails with an
\* HTTP error the error leaves get_all_data (for the page it was asking), and
\* after that the call requests nothing more.
C12_RetryBudget ==
    [][/\ fetch'.attempt <= MaxAttempts
       /\ (AttemptFails /\ fetch.attempt = MaxAttempts)
            => /\ fetch'.pc = "raised"
               /\ fetch'.exc # ""
               /\ fetch'.page = fetch.page
       /\ (AttemptFails /\ fetch'.pc = "backoff")
            => fetch.attempt < MaxAttempts /\ fetch'.attempt = fetch.attempt + 1
       /\ fetch.pc = "raised" => fetch' = fetch]_vars

\* the fifth attempt for page 2 failed with an HTTP error, which was raised
C12_Witness ==
    /\ fetch.pc = "raised"
    /\ fetch.exc = "HTTPError"
    /\ fetch.attempt = MaxAttempts
    /\ fetch.page = 2
    /\ fetch.last_get = 2

\* C25: within one get_all_data call, a page with records is followed by the
\* sleep before the GET of the next page is issued, and a GET that repeats a
\* page comes after the wait of the retry loop: no two GETs of a call are
\* issued without a wait between them.
C25_DelayBetweenGets ==
    [][/\ (fetch.pc = "request" /\ fetch'.all_items # fetch.all_items)
            => fetch'.pc = "sleep"
       /\ fetch.pc = "sleep"
            => (fetch' = fetch \/ (fetch'.pc = "get" /\ "sleep" \in fetch'.delay))
       /\ (IssuesGet /\ fetch.last_get # 0)
            => /\ fetch.delay # {}
               /\ fetch.page # fetch.last_get => "sleep" \in fetch.delay
               /\ fetch.page = fetch.last_get => "backoff" \in fetch.delay]_vars

\* the GET of page 2 is about to be repeated: the call slept after page 1 and
\* waited after the failed attempt
C25_Witness ==
    /\ fetch.pc = "request"
    /\ fetch.page = 2
    /\ fetch.last_get = 2
    /\ fetch.attempt = 2
    /\ fetch.delay = {"backoff"}
    /\ Len(fetch.all_items) = 2

\* C23: an attempt of a page request that fails is followed by another one
\* if and only if the failure is an HTTP error (and the budget of C12 is not
\* used up); a 429 is an HTTP error like any other, with the same budget and
\* the same waits; a failure that is not an HTTP error (no connection, a
\* timeout, no token file, no tokens) leaves get_all_data at once, without
\* another attempt.
C23_RetryOnlyHttpErrors ==
    [][AttemptFails
        => /\ fetch'.failure # ""
           /\ fetch'.pc \in {"backoff", "raised"}
           /\ fetch'.pc = "backoff"
                <=> (fetch'.failure = "HTTPError" /\ fetch.attempt < MaxAttempts)
           /\ fetch'.pc = "backoff"
                => /\ fetch'.attempt = fetch.attempt + 1
                   /\ fetch'.wait = WaitExponential(fetch.attempt)
           /\ fetch'.pc = "raised"
                => /\ fetch'.exc = fetch'.failure
                   /\ fetch'.attempt = fetch.attempt
           /\ fetch'.status # 0 => fetch'.failure = "HTTPError"]_vars

\* the second attempt of a page request was answered 429 and is being retried
\* after the wait of the second attempt
C23_Witness ==
    /\ fetch.pc = "backoff"
    /\ fetch.status = 429
    /\ fetch.failure = "HTTPError"
    /\ fetch.attempt = 3
    /\ fetch.wait = 2

\* ===================================================================
\* get_all_data against any vendor (bling_client.py)
\* ===================================================================
\* a body with two records
FullPage ==
    [is_dict |-> TRUE, data |-> 2]

\* the vendors: the pages listed, then either no more records or a page of
\* records for every page number asked
Vendors ==
    {[listed |-> l, beyond |-> b] : l \in [1..MaxPages -> Payloads],
                                    b \in {EmptyPage, FullPage}}

InitFetchLive ==
    /\ now = 0
    /\ InitFile
    /\ issued = 1
    /\ latest_refresh = Stored.refresh_token
    /\ InitLocals
    /\ fetch = NoFetch
    /\ vendor_pages \in Vendors
    /\ env = Configured
    /\ ui = NoUi
    /\ kpi = NoKpi
    /\ portal = NoPortal

\* The interpreter keeps running the call: a step that can be taken is taken.
SpecFetchLive == InitFetchLive /\ [][NextFetch]_vars /\ WF_vars(NextFetch)

\* get_all_data has returned its list or raised
Finished ==
    fetch.pc \in {"returned", "raised"}

\* C11: every call of get_all_data ends, by returning a (finite) list or by
\* raising, whatever pages the vendor serves.
C11_FetchTerminates ==
    (fetch.pc # "idle") ~> Finished

\* ===================================================================
\* The refresh cycle of the dashboards (src/app.py, app_production.py)
\* ===================================================================
\* ui holds the script run that the "Atualizar Dados" button starts and what
\* the dashboard keeps between script runs:
\*   program    "app" (src/app.py) or "app_production" (app_production.py)
\*   pc         "idle", "fetching" (in one of the three get_all_data calls), "process"
\*   endpoint   1, 2, 3: /pedidos/vendas, /produtos, /estoques/saldos
\*   raw        the lists fetched so far (sales, products, stock)
\*   kept       st.session_state["data"] (app); the st.cache_data entry of
\*              fetch_bling_data (app_production)
\*   shown      the data whose KPIs the last script run rendered
\*   message    "success", "error" or "": the notice of the last script run
\*   cycles     refresh cycles started
\*   before     kept, as it was when the button was pressed
\*   failed     the last refresh cycle ended in an exception
\*   last       what the last get_all_data call handed the script run
Programs == {"app", "app_production"}

\* BlingAuth.__init__: not self.client_id or not self.client_secret
ConfigMissing ==
    ~env.client_id \/ ~env.client_secret

\* DataProcessor.process: pd.DataFrame() when there are no sales, the joined
\* table otherwise (the table of cycle n stands for its content)
ProcessedFrame(n, raw) ==
    IF raw[1] = <<>> THEN EmptyFrame ELSE [cycle |-> n, raw |-> raw]

\* variant: a call that raises hands over what it had accumulated
OutcomePartial(f) ==
    [exc |-> f.exc, value |-> f.all_items, page |-> f.page]

\* what a finished get_all_data call hands its caller: the list it returns, or
\* the exception that leaves it (all_items is a local of the call)
Outcome(f) ==
    IF f.pc = "returned"
    THEN [exc |-> "", value |-> f.all_items, page |-> f.page]
    ELSE [exc |-> f.exc, value |-> <<>>, page |-> f.page]

\* the script run ends in an exception.  app: the handler's except shows the
\* error and the page renders st.session_state["data"]; app_production: the
\* except shows the error and st.stop() ends the run before anything is rendered
Fail(u) ==
    [u EXCEPT !.pc = "idle", !.endpoint = 0, !.raw = <<>>, !.message = "error",
              !.failed = TRUE,
              !.shown = IF u.program = "app" THEN u.kept ELSE EmptyFrame]

\* "Atualizar Dados" is pressed.  app: _load_data() starts, BlingClient() is
\* constructed.  app_production: st.cache_data.clear(), st.rerun(), and the new
\* script run calls fetch_bling_data(), which constructs BlingClient(TOKEN_PATH).
ClickRefresh ==
    /\ app = "file"
    /\ ui.pc = "idle"
    /\ ui.cycles < MaxCycles
    /\ LET u == [ui EXCEPT !.cycles = @ + 1, !.before = ui.kept, !.failed = FALSE,
                           !.message = "", !.last = NoOutcome,
                           !.kept = IF ui.program = "app_production" THEN EmptyFrame ELSE @]
       IN  ui' = IF ConfigMissing
                 THEN Fail(u)
                 ELSE [u EXCEPT !.pc = "fetching", !.endpoint = 1, !.raw = <<>>]
    /\ UNCHANGED <<app, now, tokens_json, client, issued, latest_refresh, pc, op,
                   tokens, body, refreshed, ret, posts, wrote, issued_at, raced,
                   fetch, vendor_pages, env, kpi, portal>>

\* client.get_all_data(endpoint) is called for the next endpoint
CallGetAllData ==
    /\ ui.pc = "fetching"
    /\ StartFetch

\* variant: an exception of get_all_data is taken as an empty list
AfterCallGoesOn(u, out) ==
    IF u.endpoint = 3
    THEN [u EXCEPT !.raw = Append(@, out.value), !.pc = "process"]
    ELSE [u EXCEPT !.raw = Append(@, out.value), !.endpoint = @ + 1]

\* sales = ...; products = ...; stock = ...: the statement after a call of
\* get_all_data is the next call, or process(...) after the third; an
\* exception leaves _load_data / fetch_bling_data
AfterCall(u, out) ==
    IF out.exc # ""
    THEN Fail(u)
    ELSE IF u.endpoint = 3
    THEN [u EXCEPT !.raw = Append(@, out.value), !.pc = "process"]
    ELSE [u EXCEPT !.raw = Append(@, out.value), !.endpoint = @ + 1]

\* get_all_data returns to _load_data / fetch_bling_data, or its exception
\* leaves them
GetAllDataReturns ==
    /\ ui.pc = "fetching"
    /\ fetch.pc \in {"returned", "raised"}
    /\ LET out == Outcome(fetch)
       IN  ui' = AfterCall([ui EXCEPT !.last = out], out)
    /\ fetch' = NoFetch
    /\ UNCHANGED <<app, now, tokens_json, client, issued, latest_refresh, pc, op,
                   tokens, body, refreshed, ret, posts, wrote, issued_at, raced,
                   vendor_pages, env, kpi, portal>>

\* The three lists are there.  app: processor.process(...) inside the try, its
\* result is assigned to st.session_state["data"] and rendered.
\* app_production: fetch_bling_data returns and its result is cached; then
\* processor.process(...) outside the try, and its result is rendered.
\* process may raise (a sale without "itens", a column the query needs).
ProcessData ==
    /\ ui.pc = "process"
    /\ LET entry == [cycle |-> ui.cycles, raw |-> ui.raw]
           frame == ProcessedFrame(ui.cycles, ui.raw)
           u == [ui EXCEPT !.kept = IF ui.program = "app_production" THEN entry ELSE @]
       IN  \/ ui' = [u EXCEPT !.pc = "idle", !.endpoint = 0, !.raw = <<>>,
                              !.kept = IF ui.program = "app" THEN frame ELSE @,
                              !.shown = frame,
                              !.message = IF ui.program = "app" THEN "success" ELSE ""]
           \/ ui' = Fail(u)
    /\ UNCHANGED <<app, now, tokens_json, client, issued, latest_refresh, pc, op,
                   tokens, body, refreshed, ret, posts, wrote, issued_at, raced,
                   fetch, vendor_pages, env, kpi, portal>>

\* deployments: each of client id, client secret and tokens.json may be missing
Deployments ==
    [client_id : BOOLEAN, client_secret : BOOLEAN, token_file : BOOLEAN]

InitCycle ==
    /\ now = 0
    /\ app = "file"
    /\ tokens_json = TokenData(1, 1, 0, 660)
    /\ client = ClientRow(0, 0, None)
    /\ issued = 1
    /\ latest_refresh = 1
    /\ InitLocals
    /\ fetch = NoFetch
    /\ vendor_pages \in {FiniteVendor(l) : l \in [1..MaxPages -> Payloads]}
    /\ env \in Deployments
    /\ ui \in {[NoUi EXCEPT !.program = p] : p \in Programs}
    /\ kpi = NoKpi
    /\ portal = NoPortal

\* Refresh cycles, one after the other.  The clock does not advance while they
\* run, and the token in tokens.json (when the file exists) is valid throughout:
\* get_valid_token returns it without a refresh.
NextCycle ==
    \/ ClickRefresh
    \/ CallGetAllData
    \/ GetCallsToken
    \/ ReadTokens(1)
    \/ TokenReturns
    \/ SendGet
    \/ Backoff
    \/ Sleep
    \/ GetAllDataReturns
    \/ ProcessData

SpecCycle == InitCycle /\ [][NextCycle]_vars

\* ===================================================================
\* Properties of the refresh cycle
\* ===================================================================
\* the step in which a finished get_all_data call hands over to its caller
HandsOver ==
    /\ ui.pc = "fetching"
    /\ fetch.pc \in {"returned", "raised"}
    /\ ui' # ui

\* C13: get_all_data either returns the records of all pages (up to the first
\* page without records), or raises; when it raises, its caller receives the
\* exception and none of the records accumulated from the earlier pages: the
\* lists of the script run, the data it keeps and the data it shows hold none
\* of them.
C13_AllOrNothing ==
    [][HandsOver =>
        IF fetch.pc = "returned"
        THEN /\ ui'.last.exc = ""
             /\ ui'.last.value = PagesUpTo(FirstEmptyFrom(1) - 1)
             /\ ui'.raw = Append(ui.raw, ui'.last.value)
        ELSE /\ ui'.last.exc # ""
             /\ ui'.last.value = <<>>
             /\ ui'.raw = <<>>
             /\ ui'.kept = ui.kept
             /\ ui'.shown \in {ui.kept, EmptyFrame}]_vars

\* a call raised while asking for page 2, holding the records of page 1; the
\* script run ended with the error and without records
C13_Witness ==
    /\ ui.pc = "idle"
    /\ ui.failed
    /\ ui.last.exc = "HTTPError"
    /\ ui.last.page = 2
    /\ PagesUpTo(1) # <<>>
    /\ ui.last.value = <<>>
    /\ ui.raw = <<>>

\* C14: when a fetch (or the processing) of a refresh cycle fails, the data
\* kept from before the cycle is left as it was and is what is displayed; the
\* kept data is replaced only by a cycle whose three fetches and processing
\* succeeded.
C14_FailedRefreshKeepsData ==
    [][/\ (ui'.pc = "idle" /\ ui'.failed)
            => /\ ui'.kept = ui'.before
               /\ ui'.shown = ui'.before
       /\ ui'.kept # ui.kept
            => /\ ui.pc = "process"
               /\ ~ui'.failed]_vars

\* C24: within a refresh cycle the endpoints are fetched in the order sales,
\* products, stock (1, 2, 3): a GET is issued only for the endpoint the cycle
\* is at, with the lists of the endpoints before it returned; the cycle moves
\* to the next endpoint only when get_all_data has returned; when a call
\* raises, the cycle ends, nothing more is requested in it and process does
\* not run.
C24_SequentialFetch ==
    [][/\ IssuesGet
            => /\ ui.pc = "fetching"
               /\ ui.endpoint \in 1..3
               /\ Len(ui.raw) = ui.endpoint - 1
       /\ (ui'.pc = "fetching" /\ ui.pc # "fetching")
            => /\ ui'.cycles = ui.cycles + 1
               /\ ui'.endpoint = 1
               /\ ui'.raw = <<>>
       /\ (ui'.endpoint # ui.endpoint /\ ui.pc = "fetching" /\ ui'.pc = "fetching")
            => /\ HandsOver
               /\ fetch.pc = "returned"
               /\ ui'.endpoint = ui.endpoint + 1
       /\ (HandsOver /\ fetch.pc = "raised")
            => /\ ui'.pc = "idle"
               /\ ui'.failed
               /\ ui'.endpoint = 0
       /\ (ui'.pc = "process" /\ ui.pc # "process")
            => /\ HandsOver
               /\ fetch.pc = "returned"
               /\ ui.endpoint = 3
               /\ Len(ui'.raw) = 3]_vars

\* sales and products have been fetched and hold records; the GET of the
\* first page of stock is about to be issued
C24_Witness ==
    /\ ui.pc = "fetching"
    /\ ui.endpoint = 3
    /\ Len(ui.raw) = 2
    /\ ui.raw[1] # <<>>
    /\ fetch.pc = "request"
    /\ fetch.page = 1

\* the step in which the token client is constructed
Constructs ==
    /\ ui.pc = "idle"
    /\ ui'.cycles = ui.cycles + 1

\* C15: constructing the token client fails with a configuration error when
\* the client id, the client secret or the token file is missing, and no page
\* request (_get) is started with one of them missing.
C15_ConfigErrorsFatalAtInit ==
    [][/\ (Constructs /\ (~env.client_id \/ ~env.client_secret \/ ~env.token_file))
            => /\ ui'.pc = "idle"
               /\ ui'.failed
       /\ fetch'.pc # "idle"
            => (env.client_id /\ env.client_secret /\ env.token_file)]_vars

\* ===================================================================
\* DataProcessor (src/data_processor.py, app_production.py) and
\* analytics_service (bling-saas/services/analytics_service.py)
\* ===================================================================
\* kpi holds one computation: fn names the function, done says whether it has
\* been applied, the other fields are its arguments and, once done, its result.
\* A table is the number of its rows and the set of its column names.

\* the two DataProcessor classes
Processors == {"data_processor", "app_production"}

Kinds == {"sales", "products", "stock"}

\* the columns an item of a sale carries
ItemColumns ==
    {"produto.id", "produto.nome", "quantidade", "valor"}

\* json_normalize(sales, record_path=["itens"], meta=[...]): the meta columns
SalesMeta(processor) ==
    IF processor = "data_processor"
    THEN {"id", "data", "numero", "total"}
    ELSE {"id", "data", "numero", "total", "canalVenda", "loja.nome"}

\* the columns=[...] of the table returned for an empty list
DeclaredColumns(processor, kind) ==
    IF kind = "sales"
    THEN {"id", "data", "numero", "total", "produto.id", "produto.nome",
          "quantidade", "valor"}
            \cup (IF processor = "app_production" THEN {"canalVenda"} ELSE {})
    ELSE IF kind = "products"
    THEN {"id", "precoCusto", "nome"}
    ELSE {"produto.id", "saldoFisico"}

\* the column names one record of the vendor yields: as the vendor documents
\* them, with one more, or with some missing
Shapes(kind) ==
    IF kind = "sales"
    THEN {ItemColumns, ItemColumns \cup {"desconto"}, {"produto.id", "quantidade"}}
    ELSE IF kind = "products"
    THEN {{"id", "precoCusto", "nome"}, {"id", "precoCusto", "nome", "codigo"}, {"id", "nome"}}
    ELSE {{"produto.id", "saldoFisico"}, {"produto.id", "saldoFisico", "saldoVirtual"}}

\* the shape the vendor documents
Documented(kind) ==
    IF kind = "sales" THEN ItemColumns
    ELSE IF kind = "products" THEN {"id", "precoCusto", "nome"}
    ELSE {"produto.id", "saldoFisico"}

\* sequences over S of length 0..n
SeqUpTo(S, n) ==
    UNION {[1..k -> S] : k \in 0..n}

\* a record of a list: a sale is the list of its items (has_itens FALSE: the
\* sale has no "itens" key), a product or a stock row is its shape
RecordsOf(kind) ==
    IF kind = "sales"
    THEN {[has_itens |-> TRUE, itens |-> i] : i \in SeqUpTo(Shapes("sales"), MaxRecords)}
            \cup {[has_itens |-> FALSE, itens |-> <<>>]}
    ELSE Shapes(kind)

\* no table yet
NoTable ==
    [raised |-> "", rows |-> 0, columns |-> {}]

RECURSIVE SumLen(_)
\* the number of items of the sales
SumLen(sales) ==
    IF sales = <<>> THEN 0 ELSE Len(Head(sales).itens) + SumLen(Tail(sales))

\* _normalize_sales; _normalize_products, _normalize_stock (app_production);
\* pd.DataFrame(...) and the `if df.empty` of process (data_processor)
Normalize(processor, kind, records) ==
    IF records = <<>>
    THEN [raised |-> "", rows |-> 0, columns |-> DeclaredColumns(processor, kind)]
    ELSE IF kind = "sales"
    THEN IF \E i \in DOMAIN records : ~records[i].has_itens
         THEN [raised |-> "KeyError", rows |-> 0, columns |-> {}]
         ELSE [raised |-> "",
               rows |-> SumLen(records),
               columns |-> UNION {{c \in ItemColumns \cup {"desconto"} :
                                      \E j \in DOMAIN records[i].itens :
                                          c \in records[i].itens[j]} :
                                  i \in DOMAIN records}
                            \cup SalesMeta(processor)]
    ELSE [raised |-> "",
          rows |-> Len(records),
          columns |-> UNION {records[i] : i \in DOMAIN records}]

\* a list of one kind is normalised
ApplyNormalize ==
    /\ kpi.fn = "normalize"
    /\ ~kpi.done
    /\ kpi' = [kpi EXCEPT !.done = TRUE,
                          !.out = Normalize(kpi.processor, kpi.kind, kpi.records)]
    /\ UNCHANGED <<app, now, tokens_json, client, issued, latest_refresh, pc, op,
                   tokens, body, refreshed, ret, posts, wrote, issued_at, raced,
                   fetch, vendor_pages, env, ui, portal>>

InitNormalize ==
    \E p \in Processors, k \in Kinds :
        \E r \in SeqUpTo(RecordsOf(k), MaxRecords) :
            kpi = [fn |-> "normalize", done |-> FALSE, processor |-> p, kind |-> k,
                   records |-> r, out |-> NoTable]

\* every record of the list has the shape the vendor documents
WellFormed(kind, records) ==
    \A i \in DOMAIN records :
        IF kind = "sales"
        THEN /\ records[i].has_itens
             /\ records[i].itens # <<>>
             /\ \A j \in DOMAIN records[i].itens : records[i].itens[j] = ItemColumns
        ELSE records[i] = Documented(kind)

\* C16: for each kind, normalising the empty list gives a table with no rows
\* and the declared columns (never a table without columns), and these are the
\* column names the kind has on non-empty input (of records shaped as the
\* vendor documents them).
C16_EmptyInputKeepsSchema ==
    (kpi.fn = "normalize" /\ kpi.done)
        => /\ kpi.records = <<>>
                => /\ kpi.out.rows = 0
                   /\ kpi.out.columns = DeclaredColumns(kpi.processor, kpi.kind)
                   /\ kpi.out.columns # {}
           /\ (kpi.records # <<>> /\ WellFormed(kpi.kind, kpi.records))
                => kpi.out.columns = DeclaredColumns(kpi.processor, kpi.kind)

\* ------------------------------------------- sales, stock and the KPIs
\* A sale row is an item of an order with a parseable date, not cancelled:
\* its product, the day of the order and the quantity.  Day 0 is a day before
\* the 90-day window, days 1, 2, 3 are distinct days inside it.
Skus == {"SKU1", "SKU2"}

Days == 0..3

Quantities == {0, 2, 3, 5}

Balances == {0, 20}

SaleRows ==
    [sku : Skus, day : Days, qty : Quantities]

\* df["data"] >= now - 90 days
InWindow(day) ==
    day >= 1

\* the rows in one order of the many that give the same sums
Rank(row) ==
    (IF row.sku = "SKU1" THEN 100 ELSE 200) + 10 * row.day + row.qty

\* the rows that may follow list l
After(l) ==
    {r \in SaleRows : l = <<>> \/ Rank(l[Len(l)]) <= Rank(r)}

RECURSIVE SalesOfLen(_)
\* the lists of n sale rows, one for each collection of rows
SalesOfLen(n) ==
    IF n = 0
    THEN {<<>>}
    ELSE UNION {{Append(l, r) : r \in After(l)} : l \in SalesOfLen(n - 1)}

\* the lists of at most n sale rows handed to the processing
SaleLists(n) ==
    UNION {SalesOfLen(k) : k \in 0..n}

\* the two computations of the sales average and the coverage
Engines == {"DataProcessor", "analytics_service"}

\* numbers are fractions; the null of pandas (None, NaN) has denominator 0
Frac(n, d) ==
    [num |-> n, den |-> d]

Null ==
    [num |-> 0, den |-> 0]

\* analytics_service: the value put where there is no coverage
Sentinel ==
    [num |-> 999, den |-> 1]

IsNull(x) ==
    x.den = 0

\* equality of two fractions
Same(x, y) ==
    /\ ~IsNull(x)
    /\ ~IsNull(y)
    /\ x.num * y.den = y.num * x.den

\* x < y for fractions with positive denominators
Less(x, y) ==
    x.num * y.den < y.num * x.den

RECURSIVE SumQty(_, _, _)
\* groupby(...)["quantidade"].sum(): the quantity of the rows of a product on the days given
SumQty(rows, sku, days) ==
    IF rows = <<>>
    THEN 0
    ELSE (IF Head(rows).sku = sku /\ Head(rows).day \in days THEN Head(rows).qty ELSE 0)
            + SumQty(Tail(rows), sku, days)

\* the days of the window on which the product has a row
SellingDays(rows, sku) ==
    {d \in Days : InWindow(d) /\ \E i \in DOMAIN rows : rows[i].sku = sku /\ rows[i].day = d}

\* the products that have a row
Sold(rows) ==
    {rows[i].sku : i \in DOMAIN rows}

\* DataProcessor.process: the mean over the product's days of the daily sums
\* (groupby product and date, sum; groupby product, mean), 0 for a product
\* without a row in the window
MediaVendaDiaria(rows, sku) ==
    LET days == SellingDays(rows, sku)
    IN  IF days = {}
        THEN Frac(0, 1)
        ELSE Frac(SumQty(rows, sku, days), Cardinality(days))

\* analytics_service: the quantity of the last 90 days divided by 90.0, 0.0 for
\* a product without a row in the window
DailyQty(rows, sku) ==
    LET days == SellingDays(rows, sku)
    IN  IF days = {}
        THEN Frac(0, 1)
        ELSE Frac(SumQty(rows, sku, days), 90)

\* DataProcessor.process: saldo_fisico / media_venda_diaria if the average is
\* positive, else None
DiasCobertura(saldo, media) ==
    IF media.num > 0 THEN Frac(saldo * media.den, media.num) ELSE Null

\* analytics_service: _safe_div(saldo, daily_qty) if daily_qty > 0 else 999
CoverageDays(saldo, daily) ==
    IF daily.num > 0 THEN Frac(saldo * daily.den, daily.num) ELSE Sentinel

\* The result, by product.  DataProcessor.process has a row for every sale row
\* (the products sold), analytics_service one for every stock row (all products).
\* risk: the products of the risk table (app.py: dias_cobertura not null;
\* build_inventory_intelligence: coverage_days < 30, saldo > 0, daily_qty > 0).
Process(engine, rows, saldo) ==
    IF engine = "DataProcessor"
    THEN LET media == [s \in Sold(rows) |-> MediaVendaDiaria(rows, s)]
             dias == [s \in Sold(rows) |-> DiasCobertura(saldo[s], media[s])]
         IN  [products |-> Sold(rows), media |-> media, dias |-> dias,
              risk |-> {s \in Sold(rows) : ~IsNull(dias[s])}]
    ELSE LET daily == [s \in Skus |-> DailyQty(rows, s)]
             cov == [s \in Skus |-> CoverageDays(saldo[s], daily[s])]
         IN  [products |-> Skus, media |-> daily, dias |-> cov,
              risk |-> {s \in Skus : /\ Less(cov[s], Frac(30, 1))
                                      /\ saldo[s] > 0
                                      /\ daily[s].num > 0}]

\* the averages and the coverage are computed
ApplyProcess ==
    /\ kpi.fn = "process"
    /\ ~kpi.done
    /\ kpi' = [kpi EXCEPT !.done = TRUE,
                          !.out = Process(kpi.engine, kpi.rows, kpi.saldo)]
    /\ UNCHANGED <<app, now, tokens_json, client, issued, latest_refresh, pc, op,
                   tokens, body, refreshed, ret, posts, wrote, issued_at, raced,
                   fetch, vendor_pages, env, ui, portal>>

\* the days of the window
WindowDays ==
    {d \in Days : InWindow(d)}

\* DataProcessor.estoque_parado(df): the rows of df (one per sale row) whose
\* product has a positive balance and sold nothing in the window; df is empty
\* when there are no sales
EstoqueParado(rows, saldo) ==
    {s \in Sold(rows) : saldo[s] > 0 /\ SumQty(rows, s, WindowDays) = 0}

\* build_inventory_intelligence: the stock rows whose days_without_sale, the
\* days since the product's last sale (0 for a product never sold:
\* last_sale.fillna(now)), exceed 90
DeadStock(rows, saldo) ==
    {s \in Skus : s \in Sold(rows) /\ SellingDays(rows, s) = {}}

\* the stalled products are listed from the table computed before
ApplyEstoqueParado ==
    /\ kpi.fn = "process"
    /\ kpi.done
    /\ ~kpi.listed
    /\ kpi' = [kpi EXCEPT !.listed = TRUE,
                          !.parado = IF kpi.engine = "DataProcessor"
                                     THEN EstoqueParado(kpi.rows, kpi.saldo)
                                     ELSE DeadStock(kpi.rows, kpi.saldo)]
    /\ UNCHANGED <<app, now, tokens_json, client, issued, latest_refresh, pc, op,
                   tokens, body, refreshed, ret, posts, wrote, issued_at, raced,
                   fetch, vendor_pages, env, ui, portal>>

\* nothing computed yet
NoResult ==
    [products |-> {}, media |-> <<>>, dias |-> <<>>, risk |-> {}]

InitProcess ==
    \E e \in Engines, r \in SaleLists(MaxSales), b \in [Skus -> Balances] :
        kpi = [fn |-> "process", done |-> FALSE, engine |-> e, rows |-> r,
               saldo |-> b, out |-> NoResult, listed |-> FALSE, parado |-> {}]

\* C17: for every product with sales on k >= 1 distinct days of the last 90
\* days, the average daily sales is the quantity sold on those days divided
\* by k (not by 90).
C17_AvgOverSellingDays ==
    (kpi.fn = "process" /\ kpi.done)
        => \A s \in kpi.out.products :
            LET days == SellingDays(kpi.rows, s)
            IN  days # {}
                    => Same(kpi.out.media[s],
                            Frac(SumQty(kpi.rows, s, days), Cardinality(days)))

\* C18: the coverage is null (not a number, not a sentinel) whenever the
\* average daily sales is 0, and the balance divided by the average
\* otherwise; a product whose coverage is undefined is not in the risk table.
C18_CoverageUndefinedAtZero ==
    (kpi.fn = "process" /\ kpi.done)
        => \A s \in kpi.out.products :
            IF kpi.out.media[s].num = 0
            THEN /\ IsNull(kpi.out.dias[s])
                 /\ s \notin kpi.out.risk
            ELSE Same(kpi.out.dias[s],
                      Frac(kpi.saldo[s] * kpi.out.media[s].den, kpi.out.media[s].num))

\* C19: a product is reported as dead stock if and only if its balance is
\* positive and the quantity it sold inside the window is zero; a product with
\* a positive balance and no sale at all is reported.
C19_DeadStockIff ==
    (kpi.fn = "process" /\ kpi.listed)
        => \A s \in Skus :
            s \in kpi.parado
                <=> (kpi.saldo[s] > 0 /\ SumQty(kpi.rows, s, WindowDays) = 0)

\* ------------------------------------------------- ABC classification
AbcSkus == {"SKU1", "SKU2", "SKU3"}

Revenues == {0, 5, 15, 80, 100}

\* the revenue tables: the revenue of each product that has orders
RevenueTables ==
    UNION {[S -> Revenues] : S \in (SUBSET AbcSkus) \ {{}}}

\* the order of the rows of groupby("sku")
SkuIndex(s) ==
    IF s = "SKU1" THEN 1 ELSE IF s = "SKU2" THEN 2 ELSE 3

\* sort_values("revenue", ascending=False): the products before s (rows of
\* equal revenue are kept in the order they had)
Before(t, s) ==
    {u \in DOMAIN t : t[u] > t[s] \/ (t[u] = t[s] /\ SkuIndex(u) < SkuIndex(s))}

RECURSIVE Total(_, _)
\* the revenue of the products S of table t
Total(t, S) ==
    IF S = {}
    THEN 0
    ELSE LET u == CHOOSE u \in S : TRUE
         IN  t[u] + Total(t, S \ {u})

\* max(a, 1)
AtLeastOne(a) ==
    IF a > 1 THEN a ELSE 1

\* "A" if x <= 0.8 else ("B" if x <= 0.95 else "C"), for x = cum / total
Label(cum, total) ==
    IF cum * 5 <= 4 * total THEN "A"
    ELSE IF cum * 20 <= 19 * total THEN "B"
    ELSE "C"

\* a variant that labels a product by its own share of the revenue
ClassifyAbcOwnShare(t) ==
    [rank |-> [s \in DOMAIN t |-> Cardinality(Before(t, s)) + 1],
     abc |-> [s \in DOMAIN t |-> Label(t[s], AtLeastOne(Total(t, DOMAIN t)))]]

\* _classify_abc: rank of each product and its class
ClassifyAbc(t) ==
    [rank |-> [s \in DOMAIN t |-> Cardinality(Before(t, s)) + 1],
     abc |-> [s \in DOMAIN t |->
                Label(Total(t, Before(t, s) \cup {s}),
                      AtLeastOne(Total(t, DOMAIN t)))]]

\* the revenue table is classified
ApplyClassifyAbc ==
    /\ kpi.fn = "abc"
    /\ ~kpi.done
    /\ kpi' = [kpi EXCEPT !.done = TRUE, !.out = ClassifyAbc(kpi.revenue)]
    /\ UNCHANGED <<app, now, tokens_json, client, issued, latest_refresh, pc, op,
                   tokens, body, refreshed, ret, posts, wrote, issued_at, raced,
                   fetch, vendor_pages, env, ui, portal>>

InitAbc ==
    \E t \in RevenueTables :
        kpi = [fn |-> "abc", done |-> FALSE, revenue |-> t,
               out |-> [rank |-> <<>>, abc |-> <<>>]]

\* C20: in every non-empty revenue table the product ranked first by
\* descending revenue is labelled class A.
C20_FirstRankedIsA ==
    (kpi.fn = "abc" /\ kpi.done)
        => \A s \in DOMAIN kpi.revenue :
            kpi.out.rank[s] = 1 => kpi.out.abc[s] = "A"

\* -------------------------------------------------- the computations
\* outside a script run: nothing is being fetched or refreshed
InitIdle ==
    /\ now = 0
    /\ app = "file"
    /\ tokens_json = NoTokens
    /\ client = ClientRow(0, 0, None)
    /\ issued = 1
    /\ latest_refresh = 0
    /\ InitLocals
    /\ fetch = NoFetch
    /\ vendor_pages = NoVendor
    /\ env = Configured
    /\ ui = NoUi
    /\ portal = NoPortal

InitKpi ==
    /\ InitIdle
    /\ \/ InitNormalize
       \/ InitProcess
       \/ InitAbc

\* each computation is applied to its input
NextKpi ==
    \/ ApplyNormalize
    \/ ApplyProcess
    \/ ApplyEstoqueParado
    \/ ApplyClassifyAbc

SpecKpi == InitKpi /\ [][NextKpi]_vars

\* ===================================================================
\* The tables of analytics_service and of DataProcessor, function by function
\* ===================================================================
\* the place of a class in the order A, B, C
ClassOrder(c) ==
    IF c = "A" THEN 1 ELSE IF c = "B" THEN 2 ELSE 3

Customers == {"CPF1", "CPF2"}

\* the timestamps of the orders
Times == 1..3

\* a created_at that to_datetime(errors="coerce") cannot parse
NaT == 0

\* an order: its customer and its timestamp
Orders ==
    [customer_id : Customers, created_at : Times \cup {NaT}]

\* orders[orders["created_at"].notna()]: the rows that are kept
Kept(orders) ==
    {i \in DOMAIN orders : orders[i].created_at # NaT}

\* the rows kept for a customer
KeptOf(orders, c) ==
    {i \in Kept(orders) : orders[i].customer_id = c}

\* groupby("customer_id")["created_at"].transform("min"), for row i
FirstPurchase(orders, i) ==
    CHOOSE t \in Times :
        /\ \E j \in KeptOf(orders, orders[i].customer_id) : orders[j].created_at = t
        /\ \A j \in KeptOf(orders, orders[i].customer_id) : t <= orders[j].created_at

\* a variant in which only the first row of a customer is new
ClassifyFirstRowOnly(orders) ==
    [i \in Kept(orders) |->
        IF /\ orders[i].created_at = FirstPurchase(orders, i)
           /\ \A j \in KeptOf(orders, orders[i].customer_id) :
                orders[j].created_at = orders[i].created_at => i <= j
        THEN "Novos Clientes"
        ELSE "Recorrentes"]

\* classify_customer_recurrence: the customer_type of every row kept (the rows
\* are named by their index; their order in the table is not represented)
classify_customer_recurrence(orders) ==
    [i \in Kept(orders) |->
        IF orders[i].created_at = FirstPurchase(orders, i)
        THEN "Novos Clientes"
        ELSE "Recorrentes"]

\* the orders are classified
ApplyClassifyRecurrence ==
    /\ kpi.fn = "recurrence"
    /\ ~kpi.done
    /\ kpi' = [kpi EXCEPT !.done = TRUE,
                          !.out = classify_customer_recurrence(kpi.orders)]
    /\ UNCHANGED <<app, now, tokens_json, client, issued, latest_refresh, pc, op,
                   tokens, body, refreshed, ret, posts, wrote, issued_at, raced,
                   fetch, vendor_pages, env, ui, portal>>

InitRecurrence ==
    \E o \in SeqUpTo(Orders, MaxOrders) :
        kpi = [fn |-> "recurrence", done |-> FALSE, orders |-> o, out |-> <<>>]

\* an order with a valid timestamp is new if and only if its timestamp is the
\* earliest of its customer's, and recurring otherwise
NewIffEarliest ==
    /\ DOMAIN kpi.out = Kept(kpi.orders)
    /\ \A i \in Kept(kpi.orders) :
        /\ kpi.out[i] \in {"Novos Clientes", "Recorrentes"}
        /\ kpi.out[i] = "Novos Clientes"
            <=> \A j \in KeptOf(kpi.orders, kpi.orders[i].customer_id) :
                    kpi.orders[i].created_at <= kpi.orders[j].created_at

\* customer c has an order labelled new
HasNew(c) ==
    \E i \in DOMAIN kpi.out :
        kpi.orders[i].customer_id = c /\ kpi.out[i] = "Novos Clientes"

\* C22 (as stated): an order with a valid timestamp is new if and only if its
\* timestamp is the earliest of its customer's orders and recurring otherwise,
\* orders tied at the earliest timestamp are all new, and every customer with
\* at least one order has at least one new order.
C22_EveryCustomerHasNew ==
    (kpi.fn = "recurrence" /\ kpi.done)
        => /\ NewIffEarliest
           /\ \A c \in Customers :
                (\E i \in DOMAIN kpi.orders : kpi.orders[i].customer_id = c)
                    => HasNew(c)

\* C22 (amended): the same, for every customer with at least one order whose
\* timestamp is valid; the orders without a valid timestamp are not labelled.
C22_RecurrenceByEarliest ==
    (kpi.fn = "recurrence" /\ kpi.done)
        => /\ NewIffEarliest
           /\ \A c \in Customers :
                KeptOf(kpi.orders, c) # {} => HasNew(c)

\* a customer with two orders tied at the earliest timestamp, both new, and a
\* later order that is recurring
C22_Witness ==
    /\ kpi.fn = "recurrence"
    /\ kpi.done
    /\ Len(kpi.orders) = 3
    /\ \A i \in 1..3 : kpi.orders[i].customer_id = "CPF1"
    /\ kpi.orders[1].created_at = 1
    /\ kpi.orders[2].created_at = 2
    /\ kpi.orders[3].created_at = 1
    /\ kpi.out[1] = "Novos Clientes"
    /\ kpi.out[2] = "Recorrentes"
    /\ kpi.out[3] = "Novos Clientes"

\* ------------------------------------------------ the status of a token
\* the clock values and expiry values, in seconds, minute by minute
Instants ==
    {m * 60 : m \in 0..MaxMinutes}

\* token_status(client, minutes) at clock value n
token_status(expires_at, minutes, n) ==
    IF expires_at = None
    THEN "expired"
    ELSE IF is_token_expiring(expires_at, minutes, n)
    THEN "expiring"
    ELSE "valid"

\* render_admin: the status of a tenant's token is computed, and the overview
\* counts the token as valid when token_status(c) == "Valid"
ApplyTokenStatus ==
    /\ kpi.fn = "token_status"
    /\ ~kpi.done
    /\ LET st == token_status(kpi.expires_at, MarginMinutes, kpi.clock)
       IN  kpi' = [kpi EXCEPT !.done = TRUE, !.out = st,
                              !.counted_valid = (st = "Valid")]
    /\ UNCHANGED <<app, now, tokens_json, client, issued, latest_refresh, pc, op,
                   tokens, body, refreshed, ret, posts, wrote, issued_at, raced,
                   fetch, vendor_pages, env, ui, portal>>

InitTokenStatus ==
    \E x \in Instants \cup {None}, n \in Instants :
        kpi = [fn |-> "token_status", done |-> FALSE, expires_at |-> x,
               clock |-> n, out |-> "", counted_valid |-> FALSE]

\* C26: token_status reports valid when the expiry is later than now plus the
\* margin, expiring when the expiry lies within the margin and has not passed,
\* and expired when the expiry has passed or none is stored.
C26_TokenStatusLifecycle ==
    (kpi.fn = "token_status" /\ kpi.done)
        => LET x == kpi.expires_at
               n == kpi.clock
           IN  kpi.out = IF x = None \/ x < n
                         THEN "expired"
                         ELSE IF x <= n + MarginMinutes * 60
                         THEN "expiring"
                         ELSE "valid"

\* -------------------------------- the channel and the name of a product
\* the two derived columns
Derived == {"canal_venda", "produto_nome"}

\* candidates = [...], in the order of the list
Candidates(d) ==
    IF d = "canal_venda"
    THEN <<"canalVenda", "canalVenda.descricao", "canalVenda.nome", "loja.nome",
           "loja", "marketplace">>
    ELSE <<"produto.nome", "produto.descricao", "descricao">>

\* fillna(...) and the value of the column when no candidate is there
Default(d) ==
    IF d = "canal_venda" THEN "Indefinido" ELSE "Produto"

\* the candidate columns the tables of the inputs are made of
Pool(d) ==
    IF d = "canal_venda"
    THEN {"canalVenda", "loja.nome", "marketplace"}
    ELSE {"produto.nome", "produto.descricao", "descricao"}

\* the places of the candidates that are columns of the table
Present(d, columns) ==
    {k \in DOMAIN Candidates(d) : Candidates(d)[k] \in columns}

\* the least of a non-empty set of places
First(K) ==
    CHOOSE k \in K : \A j \in K : k <= j

\* _derive_channel / _derive_product_name.  A row is the set of the columns in
\* which it holds a value (the others are null), and the value it holds in a
\* column is written as the name of that column.
Derive(d, columns, rows) ==
    IF Present(d, columns) = {}
    THEN [i \in DOMAIN rows |-> Default(d)]
    ELSE LET col == Candidates(d)[First(Present(d, columns))]
         IN  [i \in DOMAIN rows |-> IF col \in rows[i] THEN col ELSE Default(d)]

\* df["produto_nome"] = ..., df["canal_venda"] = ...
ApplyDerive ==
    /\ kpi.fn = "derive"
    /\ ~kpi.done
    /\ kpi' = [kpi EXCEPT !.done = TRUE,
                          !.out = Derive(kpi.derived, kpi.columns, kpi.rows)]
    /\ UNCHANGED <<app, now, tokens_json, client, issued, latest_refresh, pc, op,
                   tokens, body, refreshed, ret, posts, wrote, issued_at, raced,
                   fetch, vendor_pages, env, ui, portal>>

InitDerive ==
    \E d \in Derived :
        \E c \in SUBSET Pool(d) :
            \E r \in SeqUpTo(SUBSET c, MaxRows) :
                kpi = [fn |-> "derive", done |-> FALSE, derived |-> d,
                       columns |-> c, rows |-> r, out |-> <<>>]

\* C27: for every row the derived value is the first non-null value among
\* the candidate columns in their order, and the default only for a row that
\* holds a value in no candidate column.
C27_DerivationPerRow ==
    (kpi.fn = "derive" /\ kpi.done)
        => \A i \in DOMAIN kpi.rows :
            LET K == {k \in DOMAIN Candidates(kpi.derived) :
                        Candidates(kpi.derived)[k] \in kpi.rows[i]}
            IN  kpi.out[i] = IF K = {}
                             THEN Default(kpi.derived)
                             ELSE Candidates(kpi.derived)[First(K)]

\* ---- DataProcessor.process: the enrichment of the line items ----
\* A line item is a row of the sales table after json_normalize: the id of
\* its product (None: the item names no product), its price and quantity.
\* The products and the stock are lists as the API returned them: nothing in
\* process makes their ids unique.

ProductIds == {1, 2}

LineItems ==
    [produto_id : ProductIds \cup {None}, valor : {10}, quantidade : {1, 2}]

ProductRows ==
    [id : ProductIds, precoCusto : {4}]

StockRows ==
    [produto_id : ProductIds, saldoFisico : {20}]

\* the values of a column of the rows of a table that satisfy ON for a left
\* row, in the order of the table; a null id equals nothing
RECURSIVE MatchesFrom(_, _, _, _, _)
MatchesFrom(table, key, column, id, i) ==
    IF i > Len(table)
    THEN <<>>
    ELSE (IF id # None /\ table[i][key] = id THEN <<table[i][column]>> ELSE <<>>)
         \o MatchesFrom(table, key, column, id, i + 1)

\* LEFT JOIN: the matches, or one null when there is none
LeftJoin(table, key, column, id) ==
    LET m == MatchesFrom(table, key, column, id, 1)
    IN  IF m = <<>> THEN <<None>> ELSE m

\* pd.to_numeric(...).fillna(0)
FillNa0(x) ==
    IF x = None THEN 0 ELSE x

\* the rows the query gives for one line item, with item_total and
\* margem_unitaria added
Enrich(s, products, stock) ==
    LET costs == LeftJoin(products, "id", "precoCusto", s.produto_id)
        balances == LeftJoin(stock, "produto_id", "saldoFisico", s.produto_id)
    IN  [k \in 1..(Len(costs) * Len(balances)) |->
            LET c == costs[((k - 1) \div Len(balances)) + 1]
                b == balances[((k - 1) % Len(balances)) + 1]
            IN  [produto_id |-> s.produto_id,
                 valor_venda |-> s.valor,
                 quantidade |-> s.quantidade,
                 preco_custo |-> FillNa0(c),
                 saldo_fisico |-> FillNa0(b),
                 item_total |-> s.valor * s.quantidade,
                 margem_unitaria |-> s.valor - FillNa0(c)]]

RECURSIVE EnrichFrom(_, _, _, _)
EnrichFrom(sales, products, stock, i) ==
    IF i > Len(sales)
    THEN <<>>
    ELSE Enrich(sales[i], products, stock) \o EnrichFrom(sales, products, stock, i + 1)

\* process(sales, products, stock) up to the enriched table; without line
\* items it returns an empty frame
ProcessEnrich(sales, products, stock) ==
    IF sales = <<>> THEN <<>> ELSE EnrichFrom(sales, products, stock, 1)

ApplyProcessEnrich ==
    /\ kpi.fn = "enrich"
    /\ ~kpi.done
    /\ kpi' = [kpi EXCEPT !.done = TRUE,
                          !.out = ProcessEnrich(kpi.sales, kpi.products, kpi.stock)]
    /\ UNCHANGED <<app, now, tokens_json, client, issued, latest_refresh, pc, op,
                   tokens, body, refreshed, ret, posts, wrote, issued_at, raced,
                   fetch, vendor_pages, env, ui, portal>>

InitEnrich ==
    \E s \in SeqUpTo(LineItems, MaxRows) :
        \E p \in SeqUpTo(ProductRows, MaxRows) :
            \E st \in SeqUpTo(StockRows, MaxRows) :
                kpi = [fn |-> "enrich", done |-> FALSE, sales |-> s,
                       products |-> p, stock |-> st, out |-> <<>>]

\* the sum of valor * quantidade over the line items
RECURSIVE Revenue(_, _)
Revenue(sales, i) ==
    IF i > Len(sales) THEN 0
    ELSE sales[i].valor * sales[i].quantidade + Revenue(sales, i + 1)

\* the sum of item_total over the enriched table
RECURSIVE ItemTotal(_, _)
ItemTotal(rows, i) ==
    IF i > Len(rows) THEN 0
    ELSE rows[i].item_total + ItemTotal(rows, i + 1)

\* C30: for all sales, products and stock lists the enriched table has
\* exactly one row per line item, so the revenue summed over the enriched
\* table equals the revenue summed over the line items.
C30_EnrichmentPreservesLineItems ==
    (kpi.fn = "enrich" /\ kpi.done)
        => /\ Len(kpi.out) = Len(kpi.sales)
           /\ ItemTotal(kpi.out, 1) = Revenue(kpi.sales, 1)

InitTables ==
    /\ InitIdle
    /\ \/ InitAbc
       \/ InitRecurrence
       \/ InitTokenStatus
       \/ InitDerive
       \/ InitEnrich

\* each function is applied to its input
NextTables ==
    \/ ApplyClassifyAbc
    \/ ApplyClassifyRecurrence
    \/ ApplyTokenStatus
    \/ ApplyDerive
    \/ ApplyProcessEnrich

SpecTables == InitTables /\ [][NextTables]_vars

\* ===================================================================
\* bling-saas: login, the script run of main.py and the admin's changes
\* (auth_service.py, main.py, admin_service.py)
\* ===================================================================
\* portal holds the tenant's row (exists: the row is in the clients table),
\* st.session_state of one browser session (auth: "" when there is no "auth"
\* key, else the role; auth_error; token_error) and its script run:
\*   pc        "idle", or where the script run waits for ensure_valid_token
\*             ("login": in login_user, "render": in render_client)
\*   attempt   the last login attempt: the username typed, whether the password
\*             typed verifies against the hash of the account matched, whether
\*             the tenant was active, the outcome ("success", "failed", or
\*             "raised": an exception left login_user), and login_count and
\*             last_login as they were when it started
\*   page      what the last script run of an authenticated session rendered
\*   checked   that run found the tenant's row, active
\*   attempts, renders, changes   counters of the logins, the script runs and
\*             the admin's changes

\* the names typed into the form: the operator's, the tenant's, an unknown one
Usernames == {"admin", "tenant", "nobody"}

\* logout(): the keys auth, auth_error and token_error are removed
LoggedOut(p) ==
    [p EXCEPT !.auth = "", !.auth_error = FALSE, !.token_error = FALSE]

\* ensure_valid_token(client, session) is called by the script run
CallsEnsure ==
    /\ pc' = [pc EXCEPT ![1] = "start"]
    /\ op' = [op EXCEPT ![1] = "ensure_valid_token"]

\* login_user(username, password, session), up to its call of
\* ensure_valid_token.  verifies: verify_password(password, hash) of the
\* account matched.  The form is rendered only for a session without auth.
LoginUser ==
    /\ app = "saas"
    /\ portal.pc = "idle"
    /\ portal.auth = ""
    /\ pc[1] = "idle"
    /\ portal.attempts < MaxLogins
    /\ \E username \in Usernames, verifies \in BOOLEAN :
        LET t == portal.tenant
            a == [username |-> username,
                  verified |-> verifies /\ (username = "admin" \/ (username = "tenant" /\ t.exists)),
                  active |-> username = "tenant" /\ t.exists /\ t.is_active,
                  outcome |-> "failed",
                  count_before |-> t.login_count,
                  last_before |-> t.last_login]
            p == [portal EXCEPT !.attempts = @ + 1, !.attempt = a, !.auth_error = FALSE]
        IN  IF username = "admin"
            THEN /\ portal' = IF verifies
                              THEN [p EXCEPT !.auth = "admin", !.attempt.outcome = "success"]
                              ELSE p
                 /\ UNCHANGED <<pc, op>>
            ELSE IF username # "tenant" \/ ~t.exists
            THEN portal' = p /\ UNCHANGED <<pc, op>>
            ELSE IF ~t.is_active
            THEN portal' = [p EXCEPT !.auth_error = TRUE] /\ UNCHANGED <<pc, op>>
            ELSE IF ~verifies
            THEN portal' = p /\ UNCHANGED <<pc, op>>
            ELSE /\ portal' = [p EXCEPT !.tenant.last_login = now,
                                        !.tenant.login_count = @ + 1,
                                        !.attempt.outcome = "",
                                        !.pc = "login"]
                 /\ CallsEnsure
    /\ UNCHANGED <<app, now, tokens_json, client, issued, latest_refresh, tokens,
                   body, refreshed, ret, posts, wrote, issued_at, raced, fetch,
                   vendor_pages, env, ui, kpi>>

\* login_user from the return of ensure_valid_token on: a BlingAuthError is
\* caught (token_error), another exception leaves login_user, otherwise
\* st.session_state["auth"] is set
LoginReturns ==
    /\ portal.pc = "login"
    /\ Returns(1)
    /\ portal' = IF ret[1].exc \in {"", "BlingAuthError"}
                 THEN [portal EXCEPT !.pc = "idle", !.auth = "client",
                                     !.token_error = (ret[1].exc # ""),
                                     !.attempt.outcome = "success"]
                 ELSE [portal EXCEPT !.pc = "idle", !.attempt.outcome = "raised"]
    /\ UNCHANGED <<fetch, vendor_pages, ui, kpi>>

\* variant: a tenant's row is enough to be shown the dashboard
MayRenderIfExists(t) ==
    t.exists

\* main: `if not client` and `if not client.is_active` both pass
MayRender(t) ==
    t.exists /\ t.is_active

\* main() for a session with auth: render_admin, or the tenant's row is
\* queried and tested, and render_client starts (up to ensure_valid_token)
RenderStarts ==
    /\ app = "saas"
    /\ portal.pc = "idle"
    /\ portal.auth # ""
    /\ pc[1] = "idle"
    /\ portal.renders < MaxRenders
    /\ LET p == [portal EXCEPT !.renders = @ + 1, !.checked = FALSE]
       IN  IF portal.auth = "admin"
           THEN portal' = [p EXCEPT !.page = "admin"] /\ UNCHANGED <<pc, op>>
           ELSE IF ~MayRender(portal.tenant)
           THEN /\ portal' = [LoggedOut(p) EXCEPT
                                !.page = IF portal.tenant.exists THEN "suspended"
                                                                 ELSE "invalid"]
                /\ UNCHANGED <<pc, op>>
           ELSE /\ portal' = [p EXCEPT !.pc = "render", !.checked = TRUE,
                                       !.token_error = FALSE, !.page = ""]
                /\ CallsEnsure
    /\ UNCHANGED <<app, now, tokens_json, client, issued, latest_refresh, tokens,
                   body, refreshed, ret, posts, wrote, issued_at, raced, fetch,
                   vendor_pages, env, ui, kpi>>

\* render_client from the return of ensure_valid_token on: the dashboard of
\* the tenant is rendered, or an exception other than BlingAuthError ends the
\* script run
RenderReturns ==
    /\ portal.pc = "render"
    /\ Returns(1)
    /\ portal' = [portal EXCEPT !.pc = "idle",
                                !.page = IF ret[1].exc \in {"", "BlingAuthError"}
                                         THEN "dashboard"
                                         ELSE "exception"]
    /\ UNCHANGED <<fetch, vendor_pages, ui, kpi>>

\* the button "Sair": logout() and st.rerun()
Logout ==
    /\ portal.pc = "idle"
    /\ portal.auth # ""
    /\ portal' = LoggedOut(portal)
    /\ UNCHANGED <<app, now, tokens_json, client, issued, latest_refresh, pc, op,
                   tokens, body, refreshed, ret, posts, wrote, issued_at, raced,
                   fetch, vendor_pages, env, ui, kpi>>

\* admin_service.set_active(session, client_id, is_active), from the
\* operator's own browser session
SetActive ==
    /\ portal.tenant.exists
    /\ portal.changes < MaxChanges
    /\ \E b \in BOOLEAN :
        portal' = [portal EXCEPT !.tenant.is_active = b, !.changes = @ + 1]
    /\ UNCHANGED <<app, now, tokens_json, client, issued, latest_refresh, pc, op,
                   tokens, body, refreshed, ret, posts, wrote, issued_at, raced,
                   fetch, vendor_pages, env, ui, kpi>>

\* admin_service.delete_client(session, client_id)
DeleteClient ==
    /\ portal.tenant.exists
    /\ portal.changes < MaxChanges
    /\ portal' = [portal EXCEPT !.tenant.exists = FALSE, !.changes = @ + 1]
    /\ UNCHANGED <<app, now, tokens_json, client, issued, latest_refresh, pc, op,
                   tokens, body, refreshed, ret, posts, wrote, issued_at, raced,
                   fetch, vendor_pages, env, ui, kpi>>

\* the tenant's account as the operator created it, active or suspended
InitPortal ==
    /\ now = 0
    /\ InitSaas
    /\ issued = 1
    /\ latest_refresh = Stored.refresh_token
    /\ InitLocals
    /\ fetch = NoFetch
    /\ vendor_pages = NoVendor
    /\ env = Configured
    /\ ui = NoUi
    /\ kpi = NoKpi
    /\ portal \in {[NoPortal EXCEPT !.tenant.is_active = b] : b \in BOOLEAN}

\* Logins, script runs and the operator's changes.  The operator's changes
\* may come at any moment of the tenant's script run; the clock does not
\* advance.
NextPortal ==
    \/ LoginUser
    \/ StartRefresh(1)
    \/ PostRefresh(1)
    \/ Commit(1)
    \/ LoginReturns
    \/ RenderStarts
    \/ RenderReturns
    \/ Logout
    \/ SetActive
    \/ DeleteClient

SpecPortal == InitPortal /\ [][NextPortal]_vars

\* C28: an authenticated session exists only after a login attempt whose
\* password verified against the hash of the account matched and, for a
\* tenant, found the tenant active; a failed attempt leaves the session
\* unauthenticated and the tenant's last_login and login_count as they were;
\* a successful login of the tenant increases login_count by exactly 1.
C28_LoginSafety ==
    LET a == portal.attempt
        t == portal.tenant
    IN  /\ portal.auth # ""
            => /\ a.outcome = "success"
               /\ a.verified
               /\ a.username = (IF portal.auth = "admin" THEN "admin" ELSE "tenant")
               /\ portal.auth = "client" => a.active
        /\ a.outcome \in {"failed", "raised"}
            => /\ portal.auth = ""
               /\ t.login_count = a.count_before
               /\ t.last_login = a.last_before
        /\ (a.outcome = "success" /\ a.username = "tenant")
            => t.login_count = a.count_before + 1

====
